---- MODULE Spec2Model ----
(***************************************************************************)
(* A model of the Genizer (extractor.py): text extraction from the pages   *)
(* of the .pdf files of a directory, the regex-based separation of table   *)
(* data from prose, the chunked export to Excel sheets and the clean pass  *)
(* that merges the rows a reader has grouped.                              *)
(*                                                                         *)
(* Texts are sequences of one-character strings.  A cell that may be       *)
(* np.nan is an option: NaN is <<>>, a present value v is <<v>>.           *)
(***************************************************************************)
EXTENDS Integers, Sequences, FiniteSets, TLC

VARIABLES
    pc,          \* position of main: "idle", "extract", "save", "failed", "parse", "parsed"
    args,        \* the parsed command line: [clean, spacy]
    directory,   \* os.listdir of the directory: the files, in listing order
    fi,          \* extract_text: index of the file the outer loop is at
    pgi,         \* extract_text: pages of that file already consumed
    file_data,   \* extract_text: the six column lists being built
    data,        \* the DataFrame in memory: rows with their index label
    book,        \* the Excel file on disk: its sheets in workbook order
    doc,         \* parse_text: the spaCy Doc, as its sentences' texts
    parsed       \* parse_text: what the call returned

vars == <<pc, args, directory, fi, pgi, file_data, data, book, doc, parsed>>

-----------------------------------------------------------------------------
(* Bounds of the model *)

MaxUnitLen == 5      \* longest text unit given to parse_text
MaxFiles == 3        \* .pdf files of a directory
MaxPages == 3        \* pages of one file
MaxRows == 5         \* rows of the artifact in the save / clean cycle
MaxRowsPerSheet == 2 \* the sheet capacity, scaled down from 1048574
MaxKeys == 2         \* group keys a reader uses

-----------------------------------------------------------------------------
(* Values *)

NaN == <<>>
Some(v) == <<v>>
IsNaN(x) == x = NaN

Digit == {"0", "1", "2", "3", "4", "5", "6", "7", "8", "9"}
Whitespace == {" ", "\n"}

Min(a, b) == IF a < b THEN a ELSE b

\* F applied to the value of e, computed once
Bind(e, F(_)) == CHOOSE r \in {F(v) : v \in {e}} : TRUE

\* the least element of a set of positions; 0 for the empty set
First(S) == Bind(S, LAMBDA s : IF s = {} THEN 0 ELSE CHOOSE p \in s : \A q \in s : p <= q)

CharAt(t, p) == IF p >= 1 /\ p <= Len(t) THEN t[p] ELSE "EOT"

RECURSIVE Concat(_)
Concat(ss) == IF ss = <<>> THEN <<>> ELSE Head(ss) \o Concat(Tail(ss))

-----------------------------------------------------------------------------
(* TABLE_DATA_PATTERN, as Python's re matches it (leftmost, greedy, with    *)
(* backtracking).  NUM is \(?(\d{1,3},)*\d{1,3}(\.\d+)?\)? and the pattern  *)
(* is NUM(\nNUM)+, not anchored to the lines of the text.                   *)

\* the number of digits at positions p, p+1, ...
RECURSIVE DigitRun(_, _)
DigitRun(t, p) == IF CharAt(t, p) \in Digit THEN 1 + DigitRun(t, p + 1) ELSE 0

\* (\d{1,3},)*\d{1,3} matching the whole of s
RECURSIVE IntPartFull(_)
IntPartFull(s) ==
    Bind(DigitRun(s, 1), LAMBDA n :
        /\ n \in 1..3
        /\ \/ n = Len(s)
           \/ /\ CharAt(s, n + 1) = ","
              /\ Bind(SubSeq(s, n + 2, Len(s)), LAMBDA rest : IntPartFull(rest)))

\* NUM matching the whole of s: an optional "(", the digit groups, an optional
\* fraction, an optional ")"
NumCore(s) ==
    Bind(First({p \in 1..Len(s) : s[p] = "."}), LAMBDA dot :
        IF dot = 0
        THEN IntPartFull(s)
        ELSE /\ Bind(SubSeq(s, 1, dot - 1), LAMBDA int : IntPartFull(int))
             /\ dot < Len(s)
             /\ DigitRun(s, dot + 1) = Len(s) - dot)

NumFull(s) ==
    Bind(IF CharAt(s, 1) = "(" THEN Tail(s) ELSE s, LAMBDA s1 :
        Bind(IF CharAt(s1, Len(s1)) = ")" THEN SubSeq(s1, 1, Len(s1) - 1) ELSE s1,
             LAMBDA s2 : NumCore(s2)))

\* where (\d{1,3},)* stops when it takes every group it can, from q
RECURSIVE GroupsEnd(_, _)
GroupsEnd(t, q) ==
    Bind(DigitRun(t, q), LAMBDA n :
        IF n \in 1..3 /\ CharAt(t, q + n) = ","
        THEN Bind(q + n + 1, LAMBDA q1 : GroupsEnd(t, q1))
        ELSE q)

\* the position after the first match of NUM the engine finds at p; 0: none.
\* After the groups at pK: up to three digits, the fraction, the ")"; without a
\* digit there, the engine gives the last group back and stops before its comma.
NumTail(t, q) ==
    Bind(IF CharAt(t, q) = "." /\ DigitRun(t, q + 1) >= 1
         THEN q + 1 + DigitRun(t, q + 1) ELSE q,
         LAMBDA q2 : IF CharAt(t, q2) = ")" THEN q2 + 1 ELSE q2)

NumPrefixEnd(t, p) ==
    Bind(IF CharAt(t, p) = "(" THEN p + 1 ELSE p, LAMBDA p1 :
        Bind(GroupsEnd(t, p1), LAMBDA pK :
            Bind(DigitRun(t, pK), LAMBDA n :
                IF n >= 1 THEN NumTail(t, pK + Min(3, n))
                ELSE IF pK > p1 THEN pK - 1
                ELSE 0)))

\* (\nNUM)* from p, greedy
RECURSIVE RepStar(_, _)
RepStar(t, p) ==
    IF CharAt(t, p) # "\n" THEN p
    ELSE Bind(NumPrefixEnd(t, p + 1), LAMBDA e : IF e # 0 THEN RepStar(t, e) ELSE p)

\* the position after the match of the pattern that starts at i; 0: none.  The
\* first NUM has to end at the first line break after i.
MatchAt(t, i) ==
    Bind(First({p \in i..Len(t) : t[p] = "\n"}), LAMBDA e1 :
        IF e1 = 0 THEN 0
        ELSE Bind(NumPrefixEnd(t, e1 + 1), LAMBDA e2 :
                 IF e2 # 0 /\ Bind(SubSeq(t, i, e1 - 1), LAMBDA num : NumFull(num))
                 THEN RepStar(t, e2)
                 ELSE 0))

\* re.finditer: the matches <<start, end>> (end exclusive), left to right
RECURSIVE FindIter(_, _)
FindIter(t, i) ==
    IF i > Len(t) THEN <<>>
    ELSE Bind(MatchAt(t, i), LAMBDA e :
             IF e # 0 THEN <<<<i, e>>>> \o FindIter(t, e)
             ELSE Bind(i + 1, LAMBDA j : FindIter(t, j)))

\* re.subn(TABLE_DATA_PATTERN, '', text)[0]
RECURSIVE RemoveMatches(_, _)
RemoveMatches(t, i) ==
    IF i > Len(t) THEN <<>>
    ELSE Bind(MatchAt(t, i), LAMBDA e :
             IF e # 0 THEN RemoveMatches(t, e)
             ELSE <<t[i]>> \o Bind(i + 1, LAMBDA j : RemoveMatches(t, j)))

\* re.sub(r'\s+', ' ', text), from position i on
RECURSIVE CollapseFrom(_, _)
CollapseFrom(t, i) ==
    IF i > Len(t) THEN <<>>
    ELSE (IF t[i] \notin Whitespace THEN <<t[i]>>
          ELSE IF CharAt(t, i + 1) \in Whitespace THEN <<>>
          ELSE <<" ">>)
         \o Bind(i + 1, LAMBDA j : CollapseFrom(t, j))

CollapseWhitespace(text) == Bind(text, LAMBDA t : CollapseFrom(t, 1))

\* str.split(sep), from position i on
RECURSIVE SplitFrom(_, _, _)
SplitFrom(t, sep, i) ==
    Bind(First({p \in i..Len(t) : t[p] = sep}), LAMBDA p1 :
        IF p1 = 0 THEN <<SubSeq(t, i, Len(t))>>
        ELSE <<SubSeq(t, i, p1 - 1)>> \o Bind(p1 + 1, LAMBDA j : SplitFrom(t, sep, j)))

Split(text, sep) == Bind(text, LAMBDA t : SplitFrom(t, sep, 1))

\* the text of a sentence passed through re.subn and re.sub
SentenceWithoutData(text) == CollapseWhitespace(RemoveMatches(text, 1))

\* data.group(0).split('\n') of every match, in match order
RECURSIVE DatasetRows(_, _, _)
DatasetRows(text, ms, k) ==
    IF k > Len(ms) THEN <<>>
    ELSE Split(SubSeq(text, ms[k][1], ms[k][2] - 1), "\n")
             \o Bind(k + 1, LAMBDA j : DatasetRows(text, ms, j))

\* SentenceLists with one np.nan per table block in place of one per line
SentenceListsOneNan(swd, rows) ==
    [sentence_list |->
         (IF swd # <<" ">> THEN <<Some(swd)>> ELSE <<>>)
             \o [k \in 1..Min(1, Len(rows)) |-> NaN],
     table_data_rows |->
         (IF swd # <<" ">> THEN <<NaN>> ELSE <<>>)
             \o [k \in 1..Len(rows) |-> Some(rows[k])]]

\* the rows one sentence adds to the two lists of parse_text
SentenceLists(swd, rows) ==
    [sentence_list |->
         (IF swd # <<" ">> THEN <<Some(swd)>> ELSE <<>>) \o [k \in 1..Len(rows) |-> NaN],
     table_data_rows |->
         (IF swd # <<" ">> THEN <<NaN>> ELSE <<>>)
             \o [k \in 1..Len(rows) |-> Some(rows[k])]]

ParseSentence(sentence) ==
    Bind(sentence, LAMBDA text :
        Bind(FindIter(text, 1), LAMBDA table_data :
            Bind(SentenceWithoutData(text), LAMBDA sentence_without_data :
                Bind(DatasetRows(text, table_data, 1), LAMBDA rows :
                    SentenceLists(sentence_without_data, rows)))))

\* parse_text(doc): the sentences' rows, in sentence order
RECURSIVE ParseFrom(_, _)
ParseFrom(sents, k) ==
    IF k > Len(sents) THEN [sentence_list |-> <<>>, table_data_rows |-> <<>>]
    ELSE Bind(ParseSentence(sents[k]), LAMBDA h :
             Bind(Bind(k + 1, LAMBDA j : ParseFrom(sents, j)), LAMBDA r :
                 [sentence_list |-> h.sentence_list \o r.sentence_list,
                  table_data_rows |-> h.table_data_rows \o r.table_data_rows]))

ParseText(doc_sents) == Bind(doc_sents, LAMBDA sents : ParseFrom(sents, 1))

-----------------------------------------------------------------------------
(* Files and pages (classes/pdffile.py).  A directory entry is             *)
(* [name, pages]; a name is its characters followed by its extension; a     *)
(* page is [pageid, sents], the sentences spaCy cuts its text into.         *)

DigitSeq == <<"0", "1", "2", "3", "4", "5", "6", "7", "8", "9">>
DigitVal(c) == (CHOOSE k \in 1..Len(DigitSeq) : DigitSeq[k] = c) - 1

\* int() of the digits t[p..q]
RECURSIVE IntOf(_, _, _)
IntOf(t, p, q) == IF q < p THEN 0 ELSE IntOf(t, p, q - 1) * 10 + DigitVal(t[q])

\* str.endswith('.pdf')
EndsWithPdf(name) == name # <<>> /\ name[Len(name)] = ".pdf"

\* PDFFileList.files: a PDFFile for every .pdf entry, in listing order
Files(dir) == SelectSeq(dir, LAMBDA e : EndsWithPdf(e.name))

\* PDFFile.year: re.search('[0-9]{4}', name)
Year(name) ==
    Bind(First({p \in 1..Len(name) : DigitRun(name, p) >= 4}), LAMBDA p1 :
        IF p1 = 0 THEN 0 ELSE IntOf(name, p1, p1 + 3))

\* PageNumber with the pages counted from 0
PageNumberFromZero(page) == page.pageid - 1

\* PDFPage.number
PageNumber(page) == page.pageid

\* PDFPage.text: the text of the page, which spaCy cuts into page.sents
PageText(page) == Concat(page.sents)

-----------------------------------------------------------------------------
(* extract_text *)

Columns == {"source", "year", "page", "group", "disclosure", "table_data"}

EmptyFileData ==
    [source |-> <<>>, year |-> <<>>, page |-> <<>>, group |-> <<>>,
     disclosure |-> <<>>, table_data |-> <<>>]

Repeat(v, n) == [k \in 1..n |-> v]

\* the naive split of a page's text
NaiveSentences(text) ==
    Bind(SelectSeq(Split(text, "\n"), LAMBDA s : s # <<>> /\ s # <<" ">>),
         LAMBDA lines : [k \in 1..Len(lines) |-> Some(lines[k])])

\* the two lists of one page
PageLists(page, use_spacy) ==
    IF use_spacy
    THEN ParseText(page.sents)
    ELSE Bind(NaiveSentences(PageText(page)), LAMBDA sl :
             [sentence_list |-> sl, table_data_rows |-> Repeat(NaN, Len(sl))])

\* the body of the inner loop: the columns with one page's rows added
AddPage(fd, file, page, use_spacy) ==
    Bind(PageLists(page, use_spacy), LAMBDA l :
        Bind(Len(l.sentence_list), LAMBDA n :
            [source     |-> fd.source \o Repeat(file.name, n),
             year       |-> fd.year \o Repeat(Year(file.name), n),
             page       |-> fd.page \o Repeat(PageNumber(page), n),
             group      |-> fd.group \o Repeat(NaN, n),
             disclosure |-> fd.disclosure \o l.sentence_list,
             table_data |-> fd.table_data \o l.table_data_rows]))

SameLength(fd) == \A c \in Columns : Len(fd[c]) = Len(fd.source)

\* pd.DataFrame(file_data): the rows, labelled 0, 1, ...
DataFrame(fd) ==
    [k \in 1..Len(fd.source) |->
        [idx |-> k - 1, source |-> fd.source[k], year |-> fd.year[k],
         page |-> fd.page[k], group |-> fd.group[k],
         disclosure |-> fd.disclosure[k], table_data |-> fd.table_data[k]]]

Ready == pc \in {"idle", "failed"}

\* main without --clean calls extract_text, which starts its loops.  The
\* extraction reads nothing of an earlier Excel file and replaces it whole, so
\* the runs modelled extract a directory once, before its file exists.
ExtractBegin ==
    /\ Ready
    /\ book = <<>>
    /\ \E use_spacy \in BOOLEAN : args' = [clean |-> FALSE, spacy |-> use_spacy]
    /\ file_data' = EmptyFileData
    /\ fi' = 1
    /\ pgi' = 0
    /\ pc' = "extract"
    /\ UNCHANGED <<directory, data, book, doc, parsed>>

\* one turn of "for page in file.pages"
ExtractPage ==
    /\ pc = "extract"
    /\ fi <= Len(Files(directory))
    /\ pgi < Len(Files(directory)[fi].pages)
    /\ file_data' = Bind(Files(directory)[fi], LAMBDA file :
                         AddPage(file_data, file, file.pages[pgi + 1], args.spacy))
    /\ pgi' = pgi + 1
    /\ UNCHANGED <<pc, args, directory, fi, data, book, doc, parsed>>

\* the pages of the file are consumed: the outer loop goes on
NextFile ==
    /\ pc = "extract"
    /\ fi <= Len(Files(directory))
    /\ pgi = Len(Files(directory)[fi].pages)
    /\ fi' = fi + 1
    /\ pgi' = 0
    /\ UNCHANGED <<pc, args, directory, file_data, data, book, doc, parsed>>

\* return pd.DataFrame(file_data); columns of unequal length raise ValueError
ExtractReturn ==
    /\ pc = "extract"
    /\ fi > Len(Files(directory))
    /\ IF SameLength(file_data)
       THEN data' = DataFrame(file_data) /\ pc' = "save"
       ELSE data' = <<>> /\ pc' = "failed"
    /\ file_data' = EmptyFileData
    /\ fi' = 0
    /\ pgi' = 0
    /\ UNCHANGED <<args, directory, book, doc, parsed>>

\* ExtractRaise with the exception swallowed: the run goes on to the writer
\* with the rows gathered so far
ExtractRaiseSwallowed ==
    /\ pc = "extract"
    /\ SameLength(file_data)
    /\ data' = DataFrame(file_data)
    /\ pc' = "save"
    /\ file_data' = EmptyFileData
    /\ fi' = 0
    /\ pgi' = 0
    /\ UNCHANGED <<args, directory, book, doc, parsed>>

\* extract_text raises before it returns: spacy.load fails, or pdfminer cannot
\* read a document or a page.  The exception leaves extract_text, the columns
\* gathered so far are lost with it, main reports it and returns.
ExtractRaise ==
    /\ pc = "extract"
    /\ pc' = "failed"
    /\ file_data' = EmptyFileData
    /\ fi' = 0
    /\ pgi' = 0
    /\ UNCHANGED <<args, directory, data, book, doc, parsed>>

\* parser.parse_args() raises: get_path finds no directory or file at the path
\* given.  main reports it and returns before any argument is read.
ParseArgsFail ==
    /\ Ready
    /\ pc' = "failed"
    /\ UNCHANGED <<args, directory, fi, pgi, file_data, data, book, doc, parsed>>

-----------------------------------------------------------------------------
(* DataFrame operations (pandas), on a sequence of labelled rows *)

\* DataFrame.size: the number of cells
Size(df) == Len(df) * Cardinality(Columns)

\* the index of df
Labels(frame) == Bind(frame, LAMBDA df : {df[k].idx : k \in 1..Len(df)})

\* df.drop(labels): every row whose label is among labels goes
Drop(df, labels) == Bind(labels, LAMBDA ls : SelectSeq(df, LAMBDA r : r.idx \notin ls))

\* df.reset_index(drop=True)
ResetIndex(frame) ==
    Bind(frame, LAMBDA df : [k \in 1..Len(df) |-> [df[k] EXCEPT !.idx = k - 1]])

\* df.dropna(subset=['group'])
DropNaGroup(df) == SelectSeq(df, LAMBDA r : ~IsNaN(r.group))

\* df.drop_duplicates(subset=['group']): the first row of each group stays
IsFirstOfGroup(df, k) == \A j \in 1..(k - 1) : df[j].group # df[k].group

RECURSIVE FirstsFrom(_, _)
FirstsFrom(df, k) ==
    IF k > Len(df) THEN <<>>
    ELSE (IF IsFirstOfGroup(df, k) THEN <<df[k]>> ELSE <<>>)
             \o Bind(k + 1, LAMBDA j : FirstsFrom(df, j))

DropDuplicatesGroup(frame) == Bind(frame, LAMBDA df : FirstsFrom(df, 1))

\* JoinedDisclosure with ' '.join in place of ''.join
JoinedWithSpace(df, k) ==
    Bind(SelectSeq(df, LAMBDA r : r.group = df[k].group), LAMBDA same :
        Concat([j \in 1..Len(same) |->
                   (IF j = 1 THEN <<>> ELSE <<" ">>) \o same[j].disclosure[1]]))

\* groupby('group').transform(''.join): to every row, the disclosures of the
\* rows of its group joined in row order
JoinedDisclosure(df, k) ==
    Bind(SelectSeq(df, LAMBDA r : r.group = df[k].group), LAMBDA same :
        Concat([j \in 1..Len(same) |-> same[j].disclosure[1]]))

\* ''.join raises TypeError on a disclosure that is NaN
JoinRaises(df) == \E k \in 1..Len(df) : IsNaN(df[k].disclosure)

IsMonotonic(df) == \A k \in 1..(Len(df) - 1) : df[k].idx <= df[k + 1].idx

RemoveAt(s, k) == SubSeq(s, 1, k - 1) \o SubSeq(s, k + 1, Len(s))

\* the orders of df by label: rows of equal label in any order
RECURSIVE SortedOrders(_)
SortedOrders(frame) ==
    Bind(frame, LAMBDA df :
        IF df = <<>> THEN {<<>>}
        ELSE UNION {{<<df[k]>> \o rest : rest \in SortedOrders(RemoveAt(df, k))} :
                 k \in {i \in 1..Len(df) : \A j \in 1..Len(df) : df[i].idx <= df[j].idx}})

\* df.sort_index(): an index already in order is left alone; otherwise numpy's
\* quicksort orders the labels, and it is not stable
SortIndex(frame) ==
    Bind(frame, LAMBDA df : IF IsMonotonic(df) THEN {df} ELSE SortedOrders(df))

-----------------------------------------------------------------------------
(* The Excel file: a sequence of sheets [name, rows].  A sheet name is its  *)
(* tokens; a row is its six cells.                                          *)

EXCEL_MAX_ROWS == MaxRowsPerSheet

\* what a text cell holds once written and read back: an empty string is an
\* empty cell (a number, such as a group key, is kept)
Cell(v) == IF v = Some(<<>>) THEN NaN ELSE v

\* DataFrame.to_excel(index=False): the rows of a sheet
SheetRows(df) ==
    [k \in 1..Len(df) |->
        [source |-> df[k].source, year |-> df[k].year, page |-> df[k].page,
         group |-> df[k].group, disclosure |-> Cell(df[k].disclosure),
         table_data |-> Cell(df[k].table_data)]]

\* WriteChunks with the rows left taken one row too far
RECURSIVE WriteChunksSkipsRow(_, _)
WriteChunksSkipsRow(df, sheet_nbr) ==
    IF Size(df) > 0
    THEN <<[name |-> <<"Coding", "_", sheet_nbr>>,
            rows |-> SheetRows(SubSeq(df, 1, Min(EXCEL_MAX_ROWS, Len(df))))]>>
             \o Bind(ResetIndex(SubSeq(df, EXCEL_MAX_ROWS + 2, Len(df))), LAMBDA rest :
                    Bind(sheet_nbr + 1, LAMBDA nbr : WriteChunksSkipsRow(rest, nbr)))
    ELSE <<>>

\* the while loop of save_to_excel: the sheets written from df on
RECURSIVE WriteChunks(_, _)
WriteChunks(df, sheet_nbr) ==
    IF Size(df) > 0
    THEN Bind(SubSeq(df, 1, Min(EXCEL_MAX_ROWS, Len(df))), LAMBDA sub_df :
             <<[name |-> <<"Coding", "_", sheet_nbr>>, rows |-> SheetRows(sub_df)]>>
                 \o Bind(ResetIndex(Drop(df, Labels(sub_df))), LAMBDA rest :
                        Bind(sheet_nbr + 1, LAMBDA nbr : WriteChunks(rest, nbr))))
    ELSE <<>>

\* the file save_to_excel writes
WriteExcel(df) ==
    IF Size(df) > EXCEL_MAX_ROWS
    THEN WriteChunks(df, 0)
    ELSE <<[name |-> <<"Coding">>, rows |-> SheetRows(df)]>>

\* save_to_excel(data, excel_file), after which main returns: the frame is gone
\* with the process (the chunked branch has emptied it in place before that)
SaveToExcel ==
    /\ pc = "save"
    /\ book' = WriteExcel(data)
    /\ data' = <<>>
    /\ pc' = "idle"
    /\ UNCHANGED <<args, directory, fi, pgi, file_data, doc, parsed>>

-----------------------------------------------------------------------------
(* clean_excel_file *)

\* pd.read_excel of one sheet: its rows, labelled 0, 1, ...
ReadSheet(sheet) ==
    [k \in 1..Len(sheet.rows) |->
        [idx |-> k - 1, source |-> sheet.rows[k].source, year |-> sheet.rows[k].year,
         page |-> sheet.rows[k].page, group |-> sheet.rows[k].group,
         disclosure |-> sheet.rows[k].disclosure,
         table_data |-> sheet.rows[k].table_data]]

\* key.startswith('Coding')
StartsWithCoding(name) == name # <<>> /\ name[1] = "Coding"

\* DataFrame().append([...]): the Coding sheets one after the other, every row
\* keeping the label it has in its sheet
AppendSheets(sheets) ==
    Concat([k \in 1..Len(sheets) |->
               IF StartsWithCoding(sheets[k].name) THEN ReadSheet(sheets[k]) ELSE <<>>])

\* the grouped rows, each with the joined disclosure of its group, one per group
MergedRows(grouped) ==
    Bind(grouped, LAMBDA df_without_na :
        DropDuplicatesGroup(
            [k \in 1..Len(df_without_na) |->
                [df_without_na[k] EXCEPT
                    !.disclosure = Some(JoinedDisclosure(df_without_na, k))]]))

ClearGroup(df) == [k \in 1..Len(df) |-> [df[k] EXCEPT !.group = NaN]]

\* the frames clean_excel_file may return for the file
CleanResults(sheets) ==
    Bind(AppendSheets(sheets), LAMBDA df_from_xl :
        Bind(DropNaGroup(df_from_xl), LAMBDA df_without_na :
            Bind(Drop(df_from_xl, Labels(df_without_na)) \o MergedRows(df_without_na),
                 LAMBDA appended :
                    {ResetIndex(ClearGroup(sorted)) : sorted \in SortIndex(appended)})))

\* the call raises: the file is missing, or a grouped row has no disclosure
CleanRaises(sheets) ==
    \/ sheets = <<>>
    \/ JoinRaises(DropNaGroup(AppendSheets(sheets)))

\* transform() of a frame without any group has nothing to concatenate: whether it
\* raises depends on the pandas installed
CleanMayRaise(sheets) == DropNaGroup(AppendSheets(sheets)) = <<>>

\* main --clean: clean_excel_file returns the cleaned frame
CleanReturn ==
    /\ Ready
    /\ ~CleanRaises(book)
    /\ args' = [clean |-> TRUE, spacy |-> FALSE]
    /\ data' \in CleanResults(book)
    /\ pc' = "save"
    /\ UNCHANGED <<directory, fi, pgi, file_data, book, doc, parsed>>

\* main --clean: clean_excel_file raises, main reports it and returns
CleanFail ==
    /\ Ready
    /\ CleanRaises(book) \/ CleanMayRaise(book)
    /\ args' = [clean |-> TRUE, spacy |-> FALSE]
    /\ pc' = "failed"
    /\ UNCHANGED <<directory, fi, pgi, file_data, data, book, doc, parsed>>

\* between two runs a reader gives a row of the file a group key
GroupKeys == 1..MaxKeys

\* (the file as extracted: the runs modelled clean an annotated file and may
\* clean their own output again, without a second annotation)
Annotate ==
    /\ Ready
    /\ ~args.clean
    /\ \E s \in 1..Len(book) : \E k \in 1..Len(book[s].rows) : \E g \in GroupKeys :
          /\ IsNaN(book[s].rows[k].group)
          /\ book' = [book EXCEPT ![s].rows[k].group = Some(g)]
    /\ UNCHANGED <<pc, args, directory, fi, pgi, file_data, data, doc, parsed>>

-----------------------------------------------------------------------------
(* The directories the runs start from *)

NotPdf == [name |-> <<"t", "a", "x", ".xlsx">>, pages |-> <<>>]

FileName(i) ==
    CASE i = 1 -> <<"a", "2", "0", "1", "6", ".pdf">>
      [] i = 2 -> <<"b", ".pdf">>
      [] i = 3 -> <<"1", "9", "9", "9", "5", "c", ".pdf">>
      [] i = 4 -> <<"d", "2", "0", "x", "2", "0", "2", "1", ".pdf">>
      [] OTHER -> <<"e">> \o Repeat("7", i) \o <<".pdf">>

\* pages as pdfminer numbers them, from 1
Pages(sentss) == [p \in 1..Len(sentss) |-> [pageid |-> p, sents |-> sentss[p]]]

SamplePages ==
    { << <<"a", ".", "\n">>, <<"b", " ", "c", "\n">> >>,
      << <<"1", ",", "2", "3", "4", "\n", "(", "5", "6", ")", "\n">> >>,
      << <<"x", " ", "7", "\n", "8", " ", "y", "\n">>, <<"1", "\n", "2">> >>,
      << <<" ", "\n">> >> }

\* nf files, file f of np[f] pages, whose texts alternate between s1 and s2
ExtractFile(f, n, s1, s2) ==
    [name  |-> FileName(f),
     pages |-> Pages([p \in 1..n |-> IF (f + p) % 2 = 0 THEN s1 ELSE s2])]

ExtractDir(nf, np, s1, s2) ==
    Bind([f \in 1..nf |-> ExtractFile(f, np[f], s1, s2)], LAMBDA files :
        IF nf = 0 THEN <<NotPdf>>
        ELSE <<files[1], NotPdf>> \o SubSeq(files, 2, nf))

ExtractDirs ==
    {ExtractDir(Len(np), np, s1, s2) :
        np \in UNION {[1..n -> 0..MaxPages] : n \in 0..MaxFiles},
        s1 \in SamplePages, s2 \in SamplePages}

\* the sentences of the small directories of the save / clean cycle
LineUnits ==
    << <<"a", "\n">>, <<"b", "\n">>, <<"1", "\n", "2", "\n">>, <<"c", "\n">>,
       <<"d", "\n">>, <<"e", "\n">>, <<"f", "\n">> >>

RowsOfUnits(n) == n + (IF n >= 3 THEN 1 ELSE 0)

\* the first n sentences: two on the page of one file, the rest on the pages of another
UnitsTo(a, b, n) == SubSeq(LineUnits, a, Min(b, n))

SheetDir(n) ==
    << [name |-> FileName(1), pages |-> Pages(<<UnitsTo(1, 2, n)>>)],
       [name |-> FileName(2), pages |-> Pages(<<UnitsTo(3, 4, n), UnitsTo(5, n, n)>>)] >>

SheetDirs == {SheetDir(n) : n \in {m \in 0..Len(LineUnits) : RowsOfUnits(m) <= MaxRows}}

-----------------------------------------------------------------------------
(* The program: runs of main over a directory and its Excel file *)

InitWith(dirs) ==
    /\ pc = "idle"
    /\ args = [clean |-> FALSE, spacy |-> FALSE]
    /\ directory \in dirs
    /\ fi = 0
    /\ pgi = 0
    /\ file_data = EmptyFileData
    /\ data = <<>>
    /\ book = <<>>
    /\ doc = <<>>
    /\ parsed = [sentence_list |-> <<>>, table_data_rows |-> <<>>]

Init == InitWith(SheetDirs)

Next ==
    \/ ExtractBegin
    \/ ExtractPage
    \/ NextFile
    \/ ExtractReturn
    \/ ExtractRaise
    \/ ParseArgsFail
    \/ SaveToExcel
    \/ Annotate
    \/ CleanReturn
    \/ CleanFail

Spec == Init /\ [][Next]_vars

(* extract_text and the save that follows it, over the larger directories *)

InitExtract == InitWith(ExtractDirs)

NextExtract ==
    \/ ExtractBegin
    \/ ExtractPage
    \/ NextFile
    \/ ExtractReturn
    \/ SaveToExcel

SpecExtract == InitExtract /\ [][NextExtract]_vars

-----------------------------------------------------------------------------
(* What the claims are stated with *)

\* a row without its index label
Fields(r) ==
    [source |-> r.source, year |-> r.year, page |-> r.page, group |-> r.group,
     disclosure |-> r.disclosure, table_data |-> r.table_data]

FrameFields(df) == [k \in 1..Len(df) |-> Fields(df[k])]

\* the rows of the Coding sheets of a file, sheet after sheet
CombinedRows(sheets) ==
    Concat([s \in 1..Len(sheets) |->
               IF sheets[s].name[1] = "Coding" THEN sheets[s].rows ELSE <<>>])

\* a step of save_to_excel, of clean_excel_file returning
IsSave == pc = "save" /\ pc' = "idle"
IsCleanReturn == pc \in {"idle", "failed"} /\ pc' = "save" /\ args'.clean

\* C1: when save_to_excel takes the chunked branch, the sheets are named
\* Coding_0, Coding_1, ... in order, none holds more than EXCEL_MAX_ROWS rows,
\* and their rows, one sheet after the other, are the rows of the frame in
\* their order: none dropped, duplicated or moved.
C1_ChunkedRoundTrip ==
    [][(IsSave /\ Size(data) > EXCEL_MAX_ROWS) =>
          /\ \A s \in 1..Len(book') :
                /\ book'[s].name = <<"Coding", "_", s - 1>>
                /\ Len(book'[s].rows) <= EXCEL_MAX_ROWS
          /\ Concat([s \in 1..Len(book') |-> book'[s].rows]) = SheetRows(data)]_vars

\* a file of three chunks: two full sheets and a last one of a single row
C1_Witness ==
    /\ pc = "idle"
    /\ Len(book) = 3
    /\ book[1].name = <<"Coding", "_", 0>>
    /\ Len(book[1].rows) = EXCEL_MAX_ROWS
    /\ Len(book[3].rows) = 1

\* C2: a frame of at most EXCEL_MAX_ROWS rows is written as exactly one sheet,
\* named "Coding", with all its rows in order.
C2_SingleSheetUpToCapacity ==
    [][(IsSave /\ Len(data) <= EXCEL_MAX_ROWS) =>
          /\ Len(book') = 1
          /\ book'[1].name = <<"Coding">>
          /\ book'[1].rows = SheetRows(data)]_vars

\* C3: with N rows without a group key and K distinct keys among the grouped
\* rows (all prose rows), clean_excel_file returns N + K rows.
C3_ReconciledCount ==
    [][IsCleanReturn =>
          LET rows == CombinedRows(book)
              N == Cardinality({k \in 1..Len(rows) : IsNaN(rows[k].group)})
              K == Cardinality({rows[k].group : k \in 1..Len(rows)} \ {NaN})
          IN  Len(data') = N + K]_vars

\* the position in rows of the first source row of the output row r: the row
\* with its stamps whose text r has, or starts with
IsSourceOf(c, r) ==
    /\ c.source = r.source /\ c.page = r.page /\ c.table_data = r.table_data
    /\ IsNaN(c.disclosure) = IsNaN(r.disclosure)
    /\ ~IsNaN(c.disclosure) =>
          /\ Len(c.disclosure[1]) <= Len(r.disclosure[1])
          /\ SubSeq(r.disclosure[1], 1, Len(c.disclosure[1])) = c.disclosure[1]

SourcePosition(rows, r) == First({k \in 1..Len(rows) : IsSourceOf(rows[k], r)})

\* C4: the rows clean_excel_file returns are in the order their (first) source
\* rows have in the combined sequence of the sheets.
C4_CombinedOrderKept ==
    [][IsCleanReturn =>
          \A j, k \in 1..Len(data') :
              j < k => SourcePosition(CombinedRows(book), data'[j])
                           < SourcePosition(CombinedRows(book), data'[k])]_vars

\* the row the rows of key g are to be merged into: the stamps of the first of
\* them, their disclosures joined in order with nothing between, no group
RowsOfKey(rows, g) == SelectSeq(rows, LAMBDA r : r.group = g)

ExpectedMerged(rows, g) ==
    [source |-> RowsOfKey(rows, g)[1].source,
     year |-> RowsOfKey(rows, g)[1].year,
     page |-> RowsOfKey(rows, g)[1].page,
     group |-> NaN,
     disclosure |-> Some(Concat([k \in 1..Len(RowsOfKey(rows, g)) |->
                                    RowsOfKey(rows, g)[k].disclosure[1]])),
     table_data |-> RowsOfKey(rows, g)[1].table_data]

KeysOf(rows) == {rows[k].group : k \in 1..Len(rows)} \ {NaN}

\* C5: for every group key exactly one returned row is the merged row of the
\* key; every returned row is such a merged row or a row that had no key, as it
\* was; and no returned row has a group.
C5_OneMergedRowPerKey ==
    [][IsCleanReturn =>
          LET rows == CombinedRows(book)
              out  == FrameFields(data')
          IN  /\ \A g \in KeysOf(rows) :
                    Cardinality({j \in 1..Len(out) : out[j] = ExpectedMerged(rows, g)}) = 1
              /\ \A j \in 1..Len(out) :
                    /\ IsNaN(out[j].group)
                    /\ \/ \E g \in KeysOf(rows) : out[j] = ExpectedMerged(rows, g)
                       \/ \E k \in 1..Len(rows) :
                             IsNaN(rows[k].group) /\ out[j] = rows[k]]_vars

\* a returned frame with the rows "a" and "c", of two sheets, merged into one
C5_Witness ==
    /\ pc = "save"
    /\ args.clean
    /\ \E j \in 1..Len(data) : data[j].disclosure = Some(<<"a", "c">>)
    /\ \E j \in 1..Len(data) : data[j].disclosure = Some(<<"b">>)

\* C6: clean_excel_file run on the file its own earlier run wrote (no group key
\* left in it) returns the rows of that file unchanged, in their order.
C6_CleanIsIdempotent ==
    [][(IsCleanReturn /\ pc = "idle" /\ args.clean /\ KeysOf(CombinedRows(book)) = {}) =>
          FrameFields(data') = CombinedRows(book)]_vars

\* C7: while extract_text builds its columns and in the frame it returns, the
\* disclosure and table_data columns have the same length, every row has
\* exactly one of the two, and no row has a group.
ExactlyOne(d, t) == IsNaN(d) # IsNaN(t)

C7_ExactlyOneOfDisclosureAndTable ==
    /\ Len(file_data.disclosure) = Len(file_data.table_data)
    /\ \A k \in 1..Len(file_data.disclosure) :
          k <= Len(file_data.table_data) =>
              ExactlyOne(file_data.disclosure[k], file_data.table_data[k])
    /\ \A k \in 1..Len(file_data.group) : IsNaN(file_data.group[k])
    /\ (pc = "save" /\ ~args.clean) =>
          \A k \in 1..Len(data) :
              /\ ExactlyOne(data[k].disclosure, data[k].table_data)
              /\ IsNaN(data[k].group)

-----------------------------------------------------------------------------
(* parse_text on its own: every text unit up to MaxUnitLen characters *)

UnitChars == {"1", ",", ".", "(", ")", "\n", " ", "a"}

Units == UNION {[1..n -> UnitChars] : n \in 1..MaxUnitLen}

NoResult == [sentence_list |-> <<>>, table_data_rows |-> <<>>]

InitParse ==
    /\ pc = "parse"
    /\ doc \in {<<u>> : u \in Units}
    /\ parsed = NoResult
    /\ args = [clean |-> FALSE, spacy |-> TRUE]
    /\ directory = <<>>
    /\ fi = 0
    /\ pgi = 0
    /\ file_data = EmptyFileData
    /\ data = <<>>
    /\ book = <<>>

ParseTextCall ==
    /\ pc = "parse"
    /\ parsed' = ParseText(doc)
    /\ pc' = "parsed"
    /\ UNCHANGED <<args, directory, fi, pgi, file_data, data, book, doc>>

SpecParse == InitParse /\ [][ParseTextCall]_vars

-----------------------------------------------------------------------------
(* What parse_text and extract_text are claimed to return *)

\* the values of a list that are not np.nan, in order
Present(list) ==
    Bind(SelectSeq(list, LAMBDA x : ~IsNaN(x)), LAMBDA some :
        [k \in 1..Len(some) |-> some[k][1]])

\* whether the elements of a from the i-th on occur in b from the j-th on, in
\* their order
RECURSIVE EmbedsFrom(_, _, _, _)
EmbedsFrom(a, b, i, j) ==
    IF i > Len(a) THEN TRUE
    ELSE IF j > Len(b) THEN FALSE
    ELSE IF a[i] = b[j] THEN EmbedsFrom(a, b, i + 1, j + 1)
    ELSE EmbedsFrom(a, b, i, j + 1)

\* C8: the tabular rows parse_text emits for a unit are complete lines of the
\* unit, each emitted once in the order of the lines, at least two of them when
\* there is any: a fragment of a line is never a tabular row.
C8_TableRowsAreWholeLines ==
    pc = "parsed" =>
        Bind(Present(parsed.table_data_rows), LAMBDA rows :
            Bind(Split(doc[1], "\n"), LAMBDA lines :
                /\ Len(rows) # 1
                /\ EmbedsFrom(rows, lines, 1, 1)))

\* C9: parse_text emits a prose row for a unit only when the text left after
\* the tabular blocks are taken out has a character that is not whitespace (a
\* unit that is nothing but a tabular block gives no prose row), and a unit
\* without a tabular block gives at most one row.
C9_ProseRowOnlyForText ==
    pc = "parsed" =>
        Bind(RemoveMatches(doc[1], 1), LAMBDA left :
            /\ Present(parsed.sentence_list) # <<>> =>
                   \E p \in 1..Len(left) : left[p] \notin Whitespace
            /\ Present(parsed.table_data_rows) = <<>> =>
                   Len(parsed.sentence_list) <= 1)

\* the rows of one page, stamped with the name and the year of its document
\* and with its position among the pages of the document
StampedRows(file, p, use_spacy) ==
    Bind(PageLists(file.pages[p], use_spacy), LAMBDA l :
        [k \in 1..Len(l.sentence_list) |->
            [source |-> file.name, year |-> Year(file.name), page |-> p,
             group |-> NaN, disclosure |-> l.sentence_list[k],
             table_data |-> l.table_data_rows[k]]])

\* the rows of the pages of the documents, document after document in the
\* order of the listing, page after page
ExpectedRows(files, use_spacy) ==
    Concat([f \in 1..Len(files) |->
               Concat([p \in 1..Len(files[f].pages) |->
                          StampedRows(files[f], p, use_spacy)])])

\* C10: the frame extract_text returns holds the rows of the documents in the
\* order of the directory listing and, within a document, of its pages in
\* increasing page order, each row stamped with the name, the year and the
\* page it comes from.
C10_DocumentAndPageOrder ==
    (pc = "save" /\ ~args.clean) =>
        Bind(SelectSeq(directory, LAMBDA e : EndsWithPdf(e.name)), LAMBDA files :
            FrameFields(data) = ExpectedRows(files, args.spacy))

\* three documents of 2, 1 and 3 pages, every page giving two rows: 12 rows,
\* the last of them from page 3 of the third document
C10_Witness ==
    /\ pc = "save"
    /\ ~args.clean
    /\ Len(Files(directory)) = 3
    /\ Len(Files(directory)[1].pages) = 2
    /\ Len(Files(directory)[2].pages) = 1
    /\ Len(Files(directory)[3].pages) = 3
    /\ Len(data) = 12
    /\ \A f \in 1..3 : \A p \in 1..Len(Files(directory)[f].pages) :
          Cardinality({k \in 1..12 : data[k].source = Files(directory)[f].name
                                       /\ data[k].page = p}) = 2
    /\ data[12].source = Files(directory)[3].name
    /\ data[12].page = 3

\* a page in spaCy mode giving a prose row and the rows of a table
C7_Witness ==
    /\ pc = "save"
    /\ args.spacy
    /\ \E j, k \in 1..Len(data) :
          /\ j < k
          /\ data[j].page = data[k].page /\ data[j].source = data[k].source
          /\ ~IsNaN(data[j].disclosure) /\ ~IsNaN(data[k].table_data)

-----------------------------------------------------------------------------
(* What a run of main is claimed to do with the writer *)

\* the sheets of two files differ in group cells only: a reader's annotation
SameButGroups(b1, b2) ==
    /\ Len(b1) = Len(b2)
    /\ \A s \in 1..Len(b1) :
          /\ b1[s].name = b2[s].name
          /\ Len(b1[s].rows) = Len(b2[s].rows)
          /\ \A k \in 1..Len(b1[s].rows) :
                [b1[s].rows[k] EXCEPT !.group = NaN] = [b2[s].rows[k] EXCEPT !.group = NaN]

\* a step between runs in which a reader edits group cells of the file
IsAnnotation == pc' = pc /\ pc \in {"idle", "failed"} /\ SameButGroups(book, book')

\* the frame a run has for the writer is all the run was to produce
CompleteRows(run, frame, dir, sheets) ==
    IF run.clean
    THEN frame \in CleanResults(sheets)
    ELSE FrameFields(frame) = ExpectedRows(Files(dir), run.spacy)

\* C11: in every run of main the writer is called at most once, and only when
\* extract_text (or clean_excel_file) has returned the complete row sequence;
\* a run in which a step before the writer fails ends there: it writes nothing
\* and the rows it had gathered are dropped.
C11_WriterOnceAfterCompleteRows ==
    [][/\ pc' = "save" =>
             /\ pc # "save"
             /\ CompleteRows(args', data', directory, book)
       /\ (book' # book /\ ~IsAnnotation) =>
             /\ pc = "save"
             /\ book' = WriteExcel(data)
       /\ pc = "save" => (pc' = "idle" /\ data' = <<>>)
       /\ (pc' = "failed" /\ ~IsAnnotation) =>
             /\ book' = book
             /\ data' = <<>>
             /\ file_data' = EmptyFileData
       /\ pc = "failed" => pc' # "idle"]_vars

\* an extraction in spaCy mode has raised: the run has ended, the directory is
\* still without a file and no row is left
C11_Witness ==
    /\ pc = "failed"
    /\ ~args.clean
    /\ args.spacy
    /\ book = <<>>
    /\ Len(Files(directory)) = 2
    /\ data = <<>>

-----------------------------------------------------------------------------
(* What the year of a document is claimed to be *)

\* where the runs of exactly four digits of a name start
ExactRunStarts(name) ==
    {p \in 1..Len(name) : CharAt(name, p - 1) \notin Digit /\ DigitRun(name, p) = 4}

\* the value of the first run of exactly four digits, 0 without such a run
YearOfExactRun(name) ==
    Bind(First(ExactRunStarts(name)), LAMBDA p1 :
        IF p1 = 0 THEN 0 ELSE IntOf(name, p1, p1 + 3))

\* C12: every row of a document is stamped with the year of the document, the
\* integer value of the first run of exactly four digits in its name, or 0 when
\* the name has no such run.
C12_YearIsFirstRunOfFourDigits ==
    /\ \A k \in 1..Len(file_data.source) :
          k <= Len(file_data.year) =>
              file_data.year[k] = YearOfExactRun(file_data.source[k])
    /\ (pc = "save" /\ ~args.clean) =>
          \A k \in 1..Len(data) : data[k].year = YearOfExactRun(data[k].source)

====
